---- MODULE Spec2Model ----
(***************************************************************************)
(* A model of bmpr::Image (src/bmpr.hpp): the pixel buffer, the bounds-    *)
(* checked setter, the rasterization operations, the whole-buffer          *)
(* transforms and the BMP encoder.                                         *)
(***************************************************************************)
EXTENDS Integers, Sequences, FiniteSets, TLC

VARIABLES
    m_width,   \* Image::m_width
    m_height,  \* Image::m_height
    m_data,    \* Image::m_data, indexed 0 .. m_width*m_height-1
    pre,       \* m_data as it was when the last call was entered
    call,      \* the last call: [op, a (its integer arguments), color]
    file,      \* the bytes held by the sink of the last Save
    ret,       \* the value returned by the last Save
    status,    \* "ok", or how the process ended: "trap" (division by zero)
               \* or "hang" (a loop that never exits)
    nops,      \* calls made by the model
    ctor,      \* <<width, height>>, the arguments of the constructor
    orig,      \* m_data as it was before the calls of the model
    log        \* the operations of the calls of the model, in order

vars ==
    <<m_width, m_height, m_data, pre, call, file, ret, status, nops, ctor,
      orig, log>>

----------------------------------------------------------------------------
(* Bounds of the model *)

MaxWidth == 4
MaxHeight == 3
MaxThickness == 3
MaxOps == 2

----------------------------------------------------------------------------
(* Color and the palette *)

Channel == 0..255

MkColor(r, g, b) == [r |-> r, g |-> g, b |-> b]

BLACK == MkColor(0, 0, 0)
RED == MkColor(255, 0, 0)
PASTEL_BLUE == MkColor(153, 204, 255)

\* the colors the calls of the model are made with
Palette == {RED, PASTEL_BLUE}

----------------------------------------------------------------------------
(* C++ integer arithmetic *)

Abs(n) == IF n < 0 THEN -n ELSE n

\* int / int, truncating toward zero (b # 0)
CDiv(a, b) ==
    IF (a >= 0) = (b > 0) THEN Abs(a) \div Abs(b) ELSE -(Abs(a) \div Abs(b))

\* int % int, with the sign of the dividend (b # 0)
CRem(a, b) == a - b * CDiv(a, b)

----------------------------------------------------------------------------
(* The pixel buffer *)

\* Image::Image: width*height default-constructed Colors
NewData(w, h) == [i \in 0..(w * h - 1) |-> BLACK]

\* a bounds check that lets x = w and y = h through
InBoundsInclusive(w, h, x, y) == x >= 0 /\ x <= w /\ y >= 0 /\ y <= h

InBounds(w, h, x, y) == x >= 0 /\ x < w /\ y >= 0 /\ y < h

Index(w, x, y) == y * w + x

\* Image::Set on a valid pixel
Set(data, w, x, y, color) == [data EXCEPT ![Index(w, x, y)] = color]

\* Image::SetSafe
SetSafe(data, w, h, x, y, color) ==
    IF InBounds(w, h, x, y)
    THEN [data EXCEPT ![Index(w, x, y)] = color]
    ELSE data

\* SetSafe(x, y, color) for every point <<x, y>> of pts: the calls all write
\* the same color, so a pixel ends with it exactly when some call is on it
Plotted(w, h, pts) ==
    {Index(w, p[1], p[2]) :
        p \in {q \in {pts[k] : k \in DOMAIN pts} : InBounds(w, h, q[1], q[2])}}

PlotAll(data, w, h, pts, color) ==
    LET plotted == Plotted(w, h, pts)
    IN  [i \in DOMAIN data |-> IF i \in plotted THEN color ELSE data[i]]

\* Image::Clear
Fill(data, color) == [i \in DOMAIN data |-> color]

----------------------------------------------------------------------------
(* Image::DrawLine *)

\* a step that is always taken upwards
SignUp(a, b) == 1

\* (a < b) ? 1 : -1
Sign(a, b) == IF a < b THEN 1 ELSE -1

\* one pass through the body of the while loop after the plot:
\* s = [x, y, error]
LineStep(s, delta_x, delta_y, sign_x, sign_y) ==
    LET error2 == s.error * 2
        s1 == IF error2 > -delta_y
              THEN [s EXCEPT !.error = @ - delta_y, !.x = @ + sign_x]
              ELSE s
    IN  IF error2 < delta_x
        THEN [s1 EXCEPT !.error = @ + delta_x, !.y = @ + sign_y]
        ELSE s1

\* the while loop: the points passed to SetSafe, and whether the loop exited
\* within fuel iterations
RECURSIVE LineWalk(_, _, _, _, _, _, _, _, _)
LineWalk(s, x2, y2, delta_x, delta_y, sign_x, sign_y, fuel, pts) ==
    IF ~(s.x # x2 \/ s.y # y2) THEN [pts |-> pts, done |-> TRUE]
    ELSE IF fuel = 0 THEN [pts |-> pts, done |-> FALSE]
    ELSE LineWalk(LineStep(s, delta_x, delta_y, sign_x, sign_y),
                  x2, y2, delta_x, delta_y, sign_x, sign_y, fuel - 1,
                  Append(pts, <<s.x, s.y>>))

\* iterations after which the model gives the loop up as never exiting
LineFuel(x1, y1, x2, y2) == 2 * (Abs(x2 - x1) + Abs(y2 - y1)) + 2

LineRun(x1, y1, x2, y2) ==
    LET delta_x == Abs(x2 - x1)
        delta_y == Abs(y2 - y1)
    IN  LineWalk([x |-> x1, y |-> y1, error |-> delta_x - delta_y],
                 x2, y2, delta_x, delta_y, Sign(x1, x2), Sign(y1, y2),
                 LineFuel(x1, y1, x2, y2), <<>>)

\* a loop that plots the endpoint before it exits
LinePointsInclusive(x1, y1, x2, y2) ==
    Append(LineRun(x1, y1, x2, y2).pts, <<x2, y2>>)

LinePoints(x1, y1, x2, y2) == LineRun(x1, y1, x2, y2).pts

DrawLine(data, w, h, x1, y1, x2, y2, color) ==
    PlotAll(data, w, h, LinePoints(x1, y1, x2, y2), color)

----------------------------------------------------------------------------
(* Image::DrawLine with a thickness *)

\* a block that starts at (x, y) instead of being centred on it
BlockPointCorner(x, y, thickness, i, j) == <<x + i, y + j>>

\* the point of SetSafe(x + i - thickness / 2, y + j - thickness / 2, color)
BlockPoint(x, y, thickness, i, j) ==
    <<x + i - CDiv(thickness, 2), y + j - CDiv(thickness, 2)>>

\* the two for loops: the thickness x thickness points plotted at (x, y),
\* i outermost
Block(x, y, thickness) ==
    [k \in 1..(thickness * thickness) |->
        BlockPoint(x, y, thickness, (k - 1) \div thickness, (k - 1) % thickness)]

\* if (thickness < 1) thickness = 1
Thickness(thickness) == IF thickness < 1 THEN 1 ELSE thickness

\* one pass through the body of the while loop of this overload, after its
\* two for loops: s = [x, y, error]
ThickLineStep(s, delta_x, delta_y, sign_x, sign_y) ==
    LET error2 == s.error * 2
        s1 == IF error2 > -delta_y
              THEN [s EXCEPT !.error = @ - delta_y, !.x = @ + sign_x]
              ELSE s
    IN  IF error2 < delta_x
        THEN [s1 EXCEPT !.error = @ + delta_x, !.y = @ + sign_y]
        ELSE s1

\* the while loop of this overload: the points (x, y) its passes were made
\* at, the points passed to SetSafe, and whether the loop exited within fuel
\* iterations
RECURSIVE ThickLineWalk(_, _, _, _, _, _, _, _, _, _, _)
ThickLineWalk(s, x2, y2, delta_x, delta_y, sign_x, sign_y, thickness, fuel, at, pts) ==
    IF ~(s.x # x2 \/ s.y # y2) THEN [at |-> at, pts |-> pts, done |-> TRUE]
    ELSE IF fuel = 0 THEN [at |-> at, pts |-> pts, done |-> FALSE]
    ELSE ThickLineWalk(ThickLineStep(s, delta_x, delta_y, sign_x, sign_y),
                       x2, y2, delta_x, delta_y, sign_x, sign_y, thickness,
                       fuel - 1, Append(at, <<s.x, s.y>>),
                       pts \o Block(s.x, s.y, thickness))

ThickLineRun(x1, y1, x2, y2, thickness) ==
    LET delta_x == Abs(x2 - x1)
        delta_y == Abs(y2 - y1)
    IN  ThickLineWalk([x |-> x1, y |-> y1, error |-> delta_x - delta_y],
                      x2, y2, delta_x, delta_y, Sign(x1, x2), Sign(y1, y2),
                      Thickness(thickness), LineFuel(x1, y1, x2, y2),
                      <<>>, <<>>)

\* the buffer the call leaves, and "hang" for a loop that never exits
DrawLineThick(data, w, h, x1, y1, x2, y2, thickness, color) ==
    LET run == ThickLineRun(x1, y1, x2, y2, thickness)
    IN  [data |-> PlotAll(data, w, h, run.pts, color),
         status |-> IF run.done THEN "ok" ELSE "hang"]

----------------------------------------------------------------------------
(* Image::DrawCircle, DrawCircleLine, DrawCircleInverted *)

\* for y1 = -r..r, for x1 = -r..r: the offsets <<x1, y1>> in loop order
SquareOffsets(r) ==
    IF r < 0 THEN <<>>
    ELSE [k \in 1..((2 * r + 1) * (2 * r + 1)) |->
             <<((k - 1) % (2 * r + 1)) - r, ((k - 1) \div (2 * r + 1)) - r>>]

Shift(x, y, offs) == [k \in DOMAIN offs |-> <<x + offs[k][1], y + offs[k][2]>>]

\* a disk without the r of slack
InDiskExact(o, r) == o[1] * o[1] + o[2] * o[2] < r * r

InDisk(o, r) == o[1] * o[1] + o[2] * o[2] < r * r + r

CirclePoints(x, y, r) ==
    Shift(x, y, SelectSeq(SquareOffsets(r), LAMBDA o : InDisk(o, r)))

DrawCircle(data, w, h, x, y, r, color) ==
    PlotAll(data, w, h, CirclePoints(x, y, r), color)

\* the eight SetSafe calls of one pass of the loop
Octants(x, y, center_x, center_y) ==
    << <<x + center_x, y + center_y>>, <<x - center_x, y + center_y>>,
       <<x + center_x, y - center_y>>, <<x - center_x, y - center_y>>,
       <<x + center_y, y + center_x>>, <<x - center_y, y + center_x>>,
       <<x + center_y, y - center_x>>, <<x - center_y, y - center_x>> >>

\* the while loop: center_x grows by one in every pass and center_y never
\* grows, so the loop exits
RECURSIVE CircleLineWalk(_, _, _, _, _)
CircleLineWalk(x, y, center_x, center_y, d) ==
    IF ~(center_x <= center_y) THEN <<>>
    ELSE Octants(x, y, center_x, center_y)
         \o (IF d < 0
             THEN CircleLineWalk(x, y, center_x + 1, center_y,
                                 d + 4 * center_x + 6)
             ELSE CircleLineWalk(x, y, center_x + 1, center_y - 1,
                                 d + 4 * (center_x - center_y) + 10))

CircleLinePoints(x, y, r) == CircleLineWalk(x, y, 0, r, 3 - 2 * r)

DrawCircleLine(data, w, h, x, y, r, color) ==
    PlotAll(data, w, h, CircleLinePoints(x, y, r), color)

\* what a build can make of n / 0, which C++ leaves undefined: the process
\* is killed (SIGFPE), or the quotient is 0 (a divide instruction that does
\* not trap), or n / n has been folded to 1
DivZero == {"trap", "zero", "one"}

\* x1 / x1
SelfQuotient(x1, ub) ==
    IF x1 # 0 THEN CDiv(x1, x1) ELSE IF ub = "one" THEN 1 ELSE 0

\* the if of DrawCircleInverted at offset o: "set", "skip" or "trap"; &&
\* evaluates the quotients only when the first comparison holds
InvertedTest(o, r, ub) ==
    IF ~(o[1] * o[1] + o[2] * o[2] >= r * r + r) THEN "skip"
    ELSE IF (o[1] = 0 \/ o[2] = 0) /\ ub = "trap" THEN "trap"
    ELSE IF SelfQuotient(o[1], ub) + SelfQuotient(o[2], ub) <= r * r - r
         THEN "set"
         ELSE "skip"

\* the loops of DrawCircleInverted: they stop at the first offset whose test
\* traps, having plotted the offsets before it whose test held
DrawCircleInverted(data, w, h, x, y, r, color, ub) ==
    LET offs == SquareOffsets(r)
        traps == {k \in DOMAIN offs : InvertedTest(offs[k], r, ub) = "trap"}
        stop == IF traps = {} THEN Len(offs) + 1
                ELSE CHOOSE k \in traps : \A j \in traps : k <= j
        done == SubSeq(offs, 1, stop - 1)
        hits == SelectSeq(done, LAMBDA o : InvertedTest(o, r, ub) = "set")
    IN  [data |-> PlotAll(data, w, h, Shift(x, y, hits), color),
         status |-> IF traps = {} THEN "ok" ELSE "trap"]

----------------------------------------------------------------------------
(* Image::DrawRectangle, DrawRectangleLine *)

\* for width = 0..w-1, for height = 0..h-1
RectanglePoints(x, y, w, h) ==
    IF w <= 0 \/ h <= 0 THEN <<>>
    ELSE [k \in 1..(w * h) |-> <<x + ((k - 1) \div h), y + ((k - 1) % h)>>]

DrawRectangle(data, mw, mh, x, y, w, h, color) ==
    PlotAll(data, mw, mh, RectanglePoints(x, y, w, h), color)

\* the first loop: (x + width, y) then (x + width, y + h)
RowsPoints(x, y, w, h) ==
    IF w <= 0 THEN <<>>
    ELSE [k \in 1..(2 * w) |->
             <<x + ((k - 1) \div 2), IF k % 2 = 1 THEN y ELSE y + h>>]

\* the second loop: (x, y + height) then (x + w, y + height)
ColumnsPoints(x, y, w, h) ==
    IF h <= 0 THEN <<>>
    ELSE [k \in 1..(2 * h) |->
             <<IF k % 2 = 1 THEN x ELSE x + w, y + ((k - 1) \div 2)>>]

\* the two loops without the SetSafe on the far corner that follows them
RectangleLinePointsOpen(x, y, w, h) ==
    RowsPoints(x, y, w, h) \o ColumnsPoints(x, y, w, h)

RectangleLinePoints(x, y, w, h) ==
    RowsPoints(x, y, w, h) \o ColumnsPoints(x, y, w, h) \o << <<x + w, y + h>> >>

DrawRectangleLine(data, mw, mh, x, y, w, h, color) ==
    PlotAll(data, mw, mh, RectangleLinePoints(x, y, w, h), color)

----------------------------------------------------------------------------
(* Image::Save *)

\* the object representation of the integer v in n bytes on a little-endian
\* build: least significant byte first, two's complement for v < 0
LittleEndian(v, n) == [i \in 1..n |-> (v \div (256 ^ (i - 1))) % 256]

RECURSIVE Flatten(_)
Flatten(seqs) == IF seqs = <<>> THEN <<>> ELSE Head(seqs) \o Flatten(Tail(seqs))

RECURSIVE SumSeq(_)
SumSeq(ns) == IF ns = <<>> THEN 0 ELSE Head(ns) + SumSeq(Tail(ns))

\* struct Header under #pragma pack(1): the sizes of its fields, in order
HeaderLayout == <<2, 4, 4, 4, 4, 4, 4, 2, 2, 4, 4, 4, 4, 4, 4>>

SizeofHeader == SumSeq(HeaderLayout)

\* the remainder of the row's bytes, not of the width, as padding
RowSizeOfBytes(w) == w * 3 + CRem(w * 3, 4)

RowSize(w) == w * 3 + CRem(w, 4)

\* row_size * m_height as std::uint32_t; the sizes of the model are far below
\* 2^31, where the conversion changes nothing
BmpSize(w, h) == RowSize(w) * h

\* an initializer with m_height and m_width in each other's place
HeaderValuesSwapped(w, h) ==
    <<19778, BmpSize(w, h) + SizeofHeader, 0, SizeofHeader, 40, h, w,
      1, 24, 0, BmpSize(w, h), 0, 0, 0, 0>>

\* the initializer of header: the values of the fields, in order
HeaderValues(w, h) ==
    <<19778, BmpSize(w, h) + SizeofHeader, 0, SizeofHeader, 40, w, h,
      1, 24, 0, BmpSize(w, h), 0, 0, 0, 0>>

\* the object representation of header that ofs.write is given
HeaderBytes(w, h) ==
    Flatten([k \in DOMAIN HeaderLayout |->
                LittleEndian(HeaderValues(w, h)[k], HeaderLayout[k])])

\* std::vector<std::uint8_t> line(row_size): value-initialized
NewLine(w) == [k \in 1..RowSize(w) |-> 0]

\* an inner loop that stores r, g, b in that order
FillLineRGB(line, data, w, y) ==
    [k \in DOMAIN line |->
        IF k <= 3 * w
        THEN LET col == data[Index(w, (k - 1) \div 3, y)]
             IN  CASE (k - 1) % 3 = 0 -> col.r
                   [] (k - 1) % 3 = 1 -> col.g
                   [] OTHER -> col.b
        ELSE line[k]]

\* the inner for loop on row y: b, g, r of every pixel into line[0 .. 3w-1],
\* the rest of line left as it was
FillLine(line, data, w, y) ==
    [k \in DOMAIN line |->
        IF k <= 3 * w
        THEN LET col == data[Index(w, (k - 1) \div 3, y)]
             IN  CASE (k - 1) % 3 = 0 -> col.b
                   [] (k - 1) % 3 = 1 -> col.g
                   [] OTHER -> col.r
        ELSE line[k]]

\* the outer for loop from row y down: what each ofs.write is given
RECURSIVE RowWrites(_, _, _, _)
RowWrites(line, data, w, y) ==
    IF ~(-1 < y) THEN <<>>
    ELSE <<FillLine(line, data, w, y)>>
         \o RowWrites(FillLine(line, data, w, y), data, w, y - 1)

\* the ofs.write calls of a Save whose stream opened, in order
SaveWrites(data, w, h) ==
    <<HeaderBytes(w, h)>> \o RowWrites(NewLine(w), data, w, h - 1)

\* std::ofstream: the bytes that reach the sink when write number failAt
\* fails (0: none fails); a failed write sets badbit and the writes after it
\* do nothing
Sunk(writes, failAt) ==
    Flatten(IF failAt = 0 THEN writes ELSE SubSeq(writes, 1, failAt - 1))

\* a Save that returns true on both branches
SaveReturnTrue(opens, failAt) == TRUE

\* the value Save returns
SaveReturn(opens, failAt) == opens

\* Save on a sink holding `old`: the value returned and the bytes of the sink
Save(data, w, h, old, opens, failAt) ==
    [ret |-> SaveReturn(opens, failAt),
     bytes |-> IF opens THEN Sunk(SaveWrites(data, w, h), failAt) ELSE old]

----------------------------------------------------------------------------
(* Image::Rotate180, FlipHorizontally, FlipVertically, Invert *)

\* std::reverse(m_data.begin(), m_data.end())
Reverse(data) ==
    [i \in DOMAIN data |-> data[Cardinality(DOMAIN data) - 1 - i]]

Rotate180(data, w, h) == Reverse(data)

\* std::swap(m_data[i], m_data[j])
Swap(data, i, j) == [data EXCEPT ![i] = data[j], ![j] = data[i]]

\* the swaps of swaps, <<i, j>> each, made one after the other
RECURSIVE SwapAll(_, _)
SwapAll(data, swaps) ==
    IF swaps = <<>> THEN data
    ELSE SwapAll(Swap(data, Head(swaps)[1], Head(swaps)[2]), Tail(swaps))

\* for y < m_height, for x < m_width / 2: <<index_1D_left, index_1D_right>>
HorizontalSwaps(w, h) ==
    LET half == CDiv(w, 2)
    IN  [k \in 1..(h * half) |->
            LET y == (k - 1) \div half
                x == (k - 1) % half
            IN  <<y * w + x, y * w + (w - 1 - x)>>]

\* a loop over x that runs up to m_width
FlipHorizontallyFull(data, w, h) ==
    SwapAll(data, [k \in 1..(h * w) |->
                      <<k - 1, ((k - 1) \div w) * w + (w - 1 - ((k - 1) % w))>>])

FlipHorizontally(data, w, h) == SwapAll(data, HorizontalSwaps(w, h))

\* for y < m_height / 2, for x < m_width: <<index_1D_top, index_1D_bottom>>
VerticalSwaps(w, h) ==
    [k \in 1..(CDiv(h, 2) * w) |->
        LET y == (k - 1) \div w
            x == (k - 1) % w
        IN  <<y * w + x, (h - 1 - y) * w + x>>]

FlipVertically(data, w, h) == SwapAll(data, VerticalSwaps(w, h))

\* an inversion that takes green from red
InvertFromRed(data, w, h) ==
    [i \in DOMAIN data |->
        IF i < w * h
        THEN MkColor(255 - data[i].r, 255 - (255 - data[i].r), 255 - data[i].b)
        ELSE data[i]]

\* for i < m_width * m_height: each channel c of m_data[i] becomes 255 - c
Invert(data, w, h) ==
    [i \in DOMAIN data |->
        IF i < w * h
        THEN MkColor(255 - data[i].r, 255 - data[i].g, 255 - data[i].b)
        ELSE data[i]]

\* a Width that returns m_height
WidthFromHeight(w, h) == h

\* Image::Width, Image::Height
Width(w, h) == w

Height(w, h) == h

----------------------------------------------------------------------------
(* State machine: an image is constructed and painted, then one call is    *)
(* made on it, or up to MaxOps calls of the whole-buffer transforms.       *)

NoCall == [op |-> "Image", a |-> <<>>, color |-> BLACK]

\* a buffer whose pixels all differ, in every channel: what Set calls with
\* Color(3i+1, 3i+2, 3i+3) on pixel i leave
Ramp(w, h) == [i \in 0..(w * h - 1) |-> MkColor(3 * i + 1, 3 * i + 2, 3 * i + 3)]

\* the buffers the call is made on: as constructed, and painted
Backgrounds(w, h) == {NewData(w, h), Ramp(w, h)}

\* the last of the Set calls that paint Ramp(w, h)
LastPaint(w, h) ==
    [op |-> "Set", a |-> <<w - 1, h - 1>>, color |-> Ramp(w, h)[w * h - 1]]

Init ==
    /\ m_width \in 0..MaxWidth
    /\ m_height \in 0..MaxHeight
    /\ m_data \in Backgrounds(m_width, m_height)
    /\ pre = m_data
    /\ call = IF m_data = NewData(m_width, m_height)
              THEN NoCall
              ELSE LastPaint(m_width, m_height)
    /\ file = <<>>
    /\ ret = FALSE
    /\ status = "ok"
    /\ nops = 0
    /\ ctor = <<m_width, m_height>>
    /\ orig = m_data
    /\ log = <<>>

\* the first call on the image
First == status = "ok" /\ nops = 0

\* coordinates one pixel around the canvas
Xs == -1..m_width
Ys == -1..m_height

\* radii, and the widths and heights of rectangles
Radii == -1..MaxWidth
Ws == -1..(m_width + 1)
Hs == -1..(m_height + 1)
Thicknesses == -1..MaxThickness

\* a call that only writes pixels
Drawn(op, a, color, data, st) ==
    /\ m_data' = data
    /\ pre' = m_data
    /\ call' = [op |-> op, a |-> a, color |-> color]
    /\ status' = st
    /\ nops' = nops + 1
    /\ log' = Append(log, op)
    /\ UNCHANGED <<m_width, m_height, file, ret, ctor, orig>>

\* Set on a pixel of the canvas
CallSet ==
    /\ First
    /\ \E x \in 0..(m_width - 1), y \in 0..(m_height - 1), color \in Palette :
          Drawn("Set", <<x, y>>, color, Set(m_data, m_width, x, y, color),
                "ok")

CallSetSafe ==
    /\ First
    /\ \E x \in Xs, y \in Ys, color \in Palette :
          Drawn("SetSafe", <<x, y>>, color,
                SetSafe(m_data, m_width, m_height, x, y, color), "ok")

CallClear ==
    /\ First
    /\ \E color \in Palette :
          Drawn("Clear", <<>>, color, Fill(m_data, color), "ok")

CallDrawLine ==
    /\ First
    /\ \E x1 \in Xs, y1 \in Ys, x2 \in Xs, y2 \in Ys, color \in Palette :
          Drawn("DrawLine", <<x1, y1, x2, y2>>, color,
                DrawLine(m_data, m_width, m_height, x1, y1, x2, y2, color),
                IF LineRun(x1, y1, x2, y2).done THEN "ok" ELSE "hang")

CallDrawLineThick ==
    /\ First
    /\ \E x1 \in Xs, y1 \in Ys, x2 \in Xs, y2 \in Ys,
          thickness \in Thicknesses, color \in Palette :
          LET out == DrawLineThick(m_data, m_width, m_height, x1, y1, x2, y2,
                                   thickness, color)
          IN  Drawn("DrawLineThick", <<x1, y1, x2, y2, thickness>>, color,
                    out.data, out.status)

CallDrawCircle ==
    /\ First
    /\ \E x \in Xs, y \in Ys, r \in Radii, color \in Palette :
          Drawn("DrawCircle", <<x, y, r>>, color,
                DrawCircle(m_data, m_width, m_height, x, y, r, color), "ok")

CallDrawCircleLine ==
    /\ First
    /\ \E x \in Xs, y \in Ys, r \in Radii, color \in Palette :
          Drawn("DrawCircleLine", <<x, y, r>>, color,
                DrawCircleLine(m_data, m_width, m_height, x, y, r, color),
                "ok")

CallDrawCircleInverted ==
    /\ First
    /\ \E x \in Xs, y \in Ys, r \in Radii, color \in Palette, ub \in DivZero :
          LET out == DrawCircleInverted(m_data, m_width, m_height, x, y, r,
                                        color, ub)
          IN  Drawn("DrawCircleInverted", <<x, y, r>>, color,
                    out.data, out.status)

CallDrawRectangle ==
    /\ First
    /\ \E x \in Xs, y \in Ys, w \in Ws, h \in Hs, color \in Palette :
          Drawn("DrawRectangle", <<x, y, w, h>>, color,
                DrawRectangle(m_data, m_width, m_height, x, y, w, h, color),
                "ok")

CallDrawRectangleLine ==
    /\ First
    /\ \E x \in Xs, y \in Ys, w \in Ws, h \in Hs, color \in Palette :
          Drawn("DrawRectangleLine", <<x, y, w, h>>, color,
                DrawRectangleLine(m_data, m_width, m_height, x, y, w, h,
                                  color),
                "ok")

\* Save: the path can be opened or not, and any one write can fail
CallSave ==
    /\ First
    /\ \E opens \in BOOLEAN, failAt \in 0..(m_height + 1) :
          /\ opens \/ failAt = 0
          /\ LET out == Save(m_data, m_width, m_height, file, opens, failAt)
             IN  /\ ret' = out.ret
                 /\ file' = out.bytes
          /\ call' = [op |-> "Save", a |-> <<IF opens THEN 1 ELSE 0, failAt>>,
                      color |-> BLACK]
    /\ pre' = m_data
    /\ nops' = nops + 1
    /\ log' = Append(log, "Save")
    /\ UNCHANGED <<m_width, m_height, m_data, status, ctor, orig>>

Transforms == {"Rotate180", "FlipHorizontally", "FlipVertically", "Invert"}

\* a call that follows nothing but whole-buffer transforms
Again ==
    /\ status = "ok"
    /\ nops < MaxOps
    /\ \A k \in DOMAIN log : log[k] \in Transforms

CallRotate180 ==
    /\ Again
    /\ Drawn("Rotate180", <<>>, BLACK,
             Rotate180(m_data, m_width, m_height), "ok")

CallFlipHorizontally ==
    /\ Again
    /\ Drawn("FlipHorizontally", <<>>, BLACK,
             FlipHorizontally(m_data, m_width, m_height), "ok")

CallFlipVertically ==
    /\ Again
    /\ Drawn("FlipVertically", <<>>, BLACK,
             FlipVertically(m_data, m_width, m_height), "ok")

CallInvert ==
    /\ Again
    /\ Drawn("Invert", <<>>, BLACK, Invert(m_data, m_width, m_height), "ok")

Next ==
    \/ CallSave
    \/ CallSet
    \/ CallRotate180
    \/ CallFlipHorizontally
    \/ CallFlipVertically
    \/ CallInvert
    \/ CallSetSafe
    \/ CallClear
    \/ CallDrawLine
    \/ CallDrawLineThick
    \/ CallDrawCircle
    \/ CallDrawCircleLine
    \/ CallDrawCircleInverted
    \/ CallDrawRectangle
    \/ CallDrawRectangleLine

Spec == Init /\ [][Next]_vars

\* the calls of the two DrawLine overloads alone
LineNext ==
    \/ CallDrawLine
    \/ CallDrawLineThick

LineSpec == Init /\ [][LineNext]_vars

\* the calls of the whole-buffer transforms alone
TransformNext ==
    \/ CallRotate180
    \/ CallFlipHorizontally
    \/ CallFlipVertically
    \/ CallInvert

TransformSpec == Init /\ [][TransformNext]_vars

----------------------------------------------------------------------------
(* Properties *)

\* the pixels of the canvas
Pixels == (0..(m_width - 1)) \X (0..(m_height - 1))

At(data, p) == data[p[2] * m_width + p[1]]

\* the last call set exactly the pixels of hits to its color and left the
\* other pixels of the canvas as they were
SetsExactly(hits) ==
    /\ DOMAIN m_data = DOMAIN pre
    /\ \A p \in Pixels :
          At(m_data, p) = IF p \in hits THEN call.color ELSE At(pre, p)

RasterOps ==
    {"DrawLine", "DrawLineThick", "DrawCircle", "DrawCircleLine",
     "DrawCircleInverted", "DrawRectangle", "DrawRectangleLine"}

\* C1: every rasterization call completes: it ends neither in a division by
\* zero nor in a loop that never exits, whatever its integer arguments.
C1_RasterTotal == call.op \in RasterOps => status = "ok"

\* C2: DrawLine without thickness leaves the pixel at the endpoint (x2,y2)
\* as it was and sets the start pixel (x1,y1) when it is on the canvas and
\* is not the endpoint; a horizontal line with x1 < x2 sets exactly the
\* pixels x1..x2-1 of row y that are on the canvas; a line whose start is
\* its end changes nothing.
C2_LineEndpoint ==
    call.op = "DrawLine" =>
        LET x1 == call.a[1]
            y1 == call.a[2]
            x2 == call.a[3]
            y2 == call.a[4]
        IN  /\ <<x2, y2>> \in Pixels =>
                  At(m_data, <<x2, y2>>) = At(pre, <<x2, y2>>)
            /\ (<<x1, y1>> \in Pixels /\ <<x1, y1>> # <<x2, y2>>) =>
                  At(m_data, <<x1, y1>>) = call.color
            /\ (y1 = y2 /\ x1 < x2) =>
                  SetsExactly({p \in Pixels : p[2] = y1 /\ p[1] \in x1..(x2 - 1)})
            /\ (x1 = x2 /\ y1 = y2) => m_data = pre

\* a horizontal line that crosses the canvas from its first column to an
\* endpoint on it, at least two pixels long, drawn on a painted buffer
C2_Witness ==
    /\ call.op = "DrawLine"
    /\ call.a[2] = call.a[4]
    /\ call.a[1] = 0
    /\ call.a[3] >= 2
    /\ <<call.a[3], call.a[4]>> \in Pixels
    /\ At(pre, <<call.a[3], call.a[4]>>) # BLACK
    /\ At(m_data, <<1, call.a[2]>>) = call.color
    /\ status = "ok"

----------------------------------------------------------------------------
(* Save: the file as a reader of the format sees it *)

\* the unsigned integer held least significant byte first in the n bytes of
\* bytes that follow offset off
ReadLE(bytes, off, n) ==
    SumSeq([i \in 1..n |-> bytes[off + i] * (256 ^ (i - 1))])

\* the length of a row of the file and its padding, for a buffer of width w
FileRowSize(w) == 3 * w + (w % 4)

\* the padding that brings a row of 3w bytes to a multiple of 4 bytes
ConventionalPadding(w) == (4 - ((3 * w) % 4)) % 4

\* the last call was a Save whose sink opened and took every write
Saved == call.op = "Save" /\ ret /\ call.a[1] = 1 /\ call.a[2] = 0

\* C3: after a Save that succeeded the file starts with the 54-byte
\* little-endian header: signature 0x4D42, file_size 54 + row_size*H,
\* reserved 0, data_offset 54, info_header_size 40, width W, height H,
\* planes 1, bit_depth 24, compression 0, image_size row_size*H and four
\* zero fields, row_size being 3W + W mod 4.
C3_Header ==
    Saved =>
        /\ Len(file) >= 54
        /\ ReadLE(file, 0, 2) = 19778
        /\ ReadLE(file, 2, 4) = 54 + FileRowSize(m_width) * m_height
        /\ ReadLE(file, 6, 4) = 0
        /\ ReadLE(file, 10, 4) = 54
        /\ ReadLE(file, 14, 4) = 40
        /\ ReadLE(file, 18, 4) = m_width
        /\ ReadLE(file, 22, 4) = m_height
        /\ ReadLE(file, 26, 2) = 1
        /\ ReadLE(file, 28, 2) = 24
        /\ ReadLE(file, 30, 4) = 0
        /\ ReadLE(file, 34, 4) = FileRowSize(m_width) * m_height
        /\ ReadLE(file, 38, 4) = 0
        /\ ReadLE(file, 42, 4) = 0
        /\ ReadLE(file, 46, 4) = 0
        /\ ReadLE(file, 50, 4) = 0

\* a buffer wider than high, with padded rows, saved
C3_Witness ==
    /\ Saved
    /\ m_width = 3
    /\ m_height = 2
    /\ ReadLE(file, 2, 4) = 78

\* C4: after a Save that succeeded the bytes after the header are H rows of
\* row_size bytes, buffer row H-1 first: in the k-th row bytes 3x, 3x+1,
\* 3x+2 are blue, green, red of pixel (x, H-1-k), the last W mod 4 bytes of
\* every row are zero, and the file is 54 + row_size*H bytes long.
C4_PixelRows ==
    Saved =>
        LET rs == FileRowSize(m_width)
            byte(k, j) == file[54 + k * rs + j + 1]
        IN  /\ Len(file) = 54 + rs * m_height
            /\ \A k \in 0..(m_height - 1) :
                  /\ \A x \in 0..(m_width - 1) :
                        LET col == At(m_data, <<x, m_height - 1 - k>>)
                        IN  /\ byte(k, 3 * x) = col.b
                            /\ byte(k, 3 * x + 1) = col.g
                            /\ byte(k, 3 * x + 2) = col.r
                  /\ \A j \in (3 * m_width)..(rs - 1) : byte(k, j) = 0

\* a painted buffer of several padded rows, saved
C4_Witness ==
    /\ Saved
    /\ m_width = 3
    /\ m_height = 3
    /\ m_data = Ramp(3, 3)
    /\ Len(file) = 90

\* C5: Save returns true only when the header and every row were written:
\* a Save whose sink opened and then refused a write returns false.
C5_WriteFailureReported ==
    call.op = "Save" =>
        /\ ret => file = Flatten(SaveWrites(m_data, m_width, m_height))
        /\ (call.a[1] = 1 /\ call.a[2] # 0) => ~ret

\* C6: a Save whose sink cannot be opened returns false, writes no byte and
\* leaves the buffer as it was; so does, for the buffer, every other Save.
C6_SaveKeepsBuffer ==
    call.op = "Save" =>
        /\ m_data = pre
        /\ DOMAIN m_data = 0..(m_width * m_height - 1)
        /\ call.a[1] = 0 => (~ret /\ file = <<>>)

\* a Save on a painted buffer whose sink did not open
C6_Witness ==
    /\ call.op = "Save"
    /\ call.a[1] = 0
    /\ m_width = 2
    /\ m_height = 2
    /\ pre = Ramp(2, 2)

\* C7, as claimed: among the widths from 0 to that of the buffer and
\* MaxWidth beyond it there is a W whose padding W mod 4 differs from the
\* conventional padding and whose row size is no multiple of 4.
C7_PaddingDiverges ==
    \E w \in 0..(m_width + MaxWidth) :
        /\ RowSize(w) - 3 * w # ConventionalPadding(w)
        /\ RowSize(w) % 4 # 0

\* C7, amended: for every width W >= 0 the padding of a row, W mod 4, is
\* the conventional padding (4 - 3W mod 4) mod 4 and the row size is a
\* multiple of 4; so is every row of a file Save wrote.
C7_PaddingConventional ==
    /\ \A w \in 0..(m_width + MaxWidth) :
          /\ RowSize(w) - 3 * w = ConventionalPadding(w)
          /\ RowSize(w) % 4 = 0
    /\ Saved =>
          /\ Len(file) = 54 + m_height * (3 * m_width + ConventionalPadding(m_width))
          /\ (Len(file) - 54) % 4 = 0

\* a saved file whose single row is padded by 3 bytes
C7_Witness ==
    /\ Saved
    /\ m_width = 3
    /\ m_height = 1
    /\ Len(file) = 54 + 12

\* C8: SetSafe(x, y, color) on a pixel of the canvas makes the pixel at
\* index y*W + x equal to color and leaves every other pixel as it was; for
\* any other (x, y) it leaves the whole buffer as it was.
C8_SetSafe ==
    call.op = "SetSafe" =>
        LET x == call.a[1]
            y == call.a[2]
        IN  /\ DOMAIN m_data = DOMAIN pre
            /\ IF 0 <= x /\ x < m_width /\ 0 <= y /\ y < m_height
               THEN \A i \in DOMAIN pre :
                       m_data[i] = IF i = y * m_width + x THEN call.color
                                   ELSE pre[i]
               ELSE m_data = pre

\* SetSafe on the last pixel of the second row of a painted buffer
C8_Witness ==
    /\ call.op = "SetSafe"
    /\ m_width = 3
    /\ m_height = 3
    /\ call.a = <<2, 1>>
    /\ pre = Ramp(3, 3)
    /\ m_data[5] = call.color

\* C9: for r >= 0 DrawCircleInverted sets exactly the pixels (cx+dx, cy+dy)
\* of the canvas with dx, dy in [-r, r] and dx*dx + dy*dy >= r*r + r: the
\* pixels of the square of side 2r+1 that DrawCircle does not set.
C9_InvertedSquare ==
    (call.op = "DrawCircleInverted" /\ call.a[3] >= 0) =>
        LET cx == call.a[1]
            cy == call.a[2]
            r == call.a[3]
        IN  SetsExactly({p \in Pixels :
                /\ Abs(p[1] - cx) <= r
                /\ Abs(p[2] - cy) <= r
                /\ (p[1] - cx) * (p[1] - cx) + (p[2] - cy) * (p[2] - cy)
                      >= r * r + r})

\* C10: for w >= 0 and h >= 0 DrawRectangleLine sets exactly the pixels of
\* the canvas on the boundary of the closed rectangle [x, x+w] x [y, y+h],
\* the far corner (x+w, y+h) included, and no pixel inside or outside it.
C10_RectangleLine ==
    (call.op = "DrawRectangleLine" /\ call.a[3] >= 0 /\ call.a[4] >= 0) =>
        LET x == call.a[1]
            y == call.a[2]
            w == call.a[3]
            h == call.a[4]
        IN  SetsExactly({p \in Pixels :
                /\ p[1] \in x..(x + w)
                /\ p[2] \in y..(y + h)
                /\ (p[1] \in {x, x + w} \/ p[2] \in {y, y + h})})

\* DrawRectangleLine(0, 0, 3, 2) on a painted 4 x 3 buffer: the border up to
\* (3, 2) is set and the inside is not
C10_Witness ==
    /\ call.op = "DrawRectangleLine"
    /\ call.a = <<0, 0, 3, 2>>
    /\ m_width = 4
    /\ m_height = 3
    /\ pre = Ramp(4, 3)
    /\ At(m_data, <<3, 2>>) = call.color
    /\ At(m_data, <<1, 1>>) = At(pre, <<1, 1>>)

\* max(t, 1)
AtLeastOne(t) == IF t > 1 THEN t ELSE 1

\* the t x t block [px - t/2, px - t/2 + t - 1] x [py - t/2, py - t/2 + t - 1]
BlockAround(q, t) ==
    ((q[1] - (t \div 2))..(q[1] - (t \div 2) + t - 1))
        \X ((q[2] - (t \div 2))..(q[2] - (t \div 2) + t - 1))

\* C11: DrawLine with a thickness t makes its passes at the points thin
\* DrawLine plots, in the same order; with t coerced to max(t, 1) the points
\* it passes to SetSafe are those of the t x t blocks
\* [px - t/2, px - t/2 + t - 1] x [py - t/2, py - t/2 + t - 1] around them, so
\* that exactly the pixels of these blocks that lie on the canvas take the
\* color; for t <= 1 the buffer is the one thin DrawLine leaves.
C11_ThickLine ==
    call.op = "DrawLineThick" =>
        LET a == call.a
            t == AtLeastOne(a[5])
            thin == LinePoints(a[1], a[2], a[3], a[4])
            run == ThickLineRun(a[1], a[2], a[3], a[4], a[5])
            blocks == UNION {BlockAround(thin[k], t) : k \in DOMAIN thin}
        IN  /\ run.at = thin
            /\ {run.pts[k] : k \in DOMAIN run.pts} = blocks
            /\ SetsExactly(blocks)
            /\ a[5] <= 1 =>
                  m_data = DrawLine(pre, m_width, m_height,
                                    a[1], a[2], a[3], a[4], call.color)

\* a line of thickness 2 across a painted canvas, its first block cut by the
\* corner of the canvas
C11_Witness ==
    /\ call.op = "DrawLineThick"
    /\ call.a = <<0, 0, 3, 2, 2>>
    /\ m_width = 4 /\ m_height = 3
    /\ pre = Ramp(4, 3)
    /\ m_data # pre

Max(a, b) == IF a > b THEN a ELSE b

Min(a, b) == IF a < b THEN a ELSE b

\* the passes of the stepping loop of the last call, a DrawLine of either
\* overload: the points they were made at, and whether the loop exited
Passes ==
    LET a == call.a
    IN  IF call.op = "DrawLine"
        THEN LET run == LineRun(a[1], a[2], a[3], a[4])
             IN  [at |-> run.pts, done |-> run.done]
        ELSE LET run == ThickLineRun(a[1], a[2], a[3], a[4], a[5])
             IN  [at |-> run.at, done |-> run.done]

\* C15: for every pair of endpoints the stepping loop of both DrawLine
\* overloads exits: the current point reaches (x2, y2) after at most
\* max(|x2 - x1|, |y2 - y1|) passes, and no pass is made beyond (x2, y2).
C15_LineTerminates ==
    call.op \in {"DrawLine", "DrawLineThick"} =>
        LET a == call.a
            run == Passes
        IN  /\ status = "ok"
            /\ run.done
            /\ Len(run.at) <= Max(Abs(a[3] - a[1]), Abs(a[4] - a[2]))
            /\ \A k \in DOMAIN run.at :
                  /\ run.at[k][1] \in Min(a[1], a[3])..Max(a[1], a[3])
                  /\ run.at[k][2] \in Min(a[2], a[4])..Max(a[2], a[4])

\* a line that runs down and to the left, across the canvas and out of it
C15_Witness ==
    /\ call.op = "DrawLine"
    /\ call.a = <<4, -1, -1, 2>>
    /\ status = "ok"
    /\ Len(LinePoints(4, -1, -1, 2)) = 5

\* the pixels of the canvas among the points of pts
OnCanvas(pts) == {pts[k] : k \in DOMAIN pts} \cap Pixels

\* the outline of the last call, a DrawCircleLine, lies in the disk DrawCircle
\* draws with the same arguments
OutlineInDisk ==
    LET a == call.a
        offs == CircleLinePoints(0, 0, a[3])
        outline == OnCanvas(CircleLinePoints(a[1], a[2], a[3]))
        disk == DrawCircle(pre, m_width, m_height, a[1], a[2], a[3],
                           call.color)
    IN  /\ \A k \in DOMAIN offs :
              /\ Abs(offs[k][1]) <= a[3]
              /\ Abs(offs[k][2]) <= a[3]
              /\ offs[k][1] * offs[k][1] + offs[k][2] * offs[k][2]
                     < a[3] * a[3] + a[3]
        /\ SetsExactly(outline)
        /\ outline \subseteq OnCanvas(CirclePoints(a[1], a[2], a[3]))
        /\ DrawCircleLine(disk, m_width, m_height, a[1], a[2], a[3],
                          call.color) = disk

\* the last call, a DrawCircleLine, and DrawCircle with the same arguments
\* set nothing
BothSetNothing ==
    /\ m_data = pre
    /\ DrawCircle(pre, m_width, m_height, call.a[1], call.a[2], call.a[3],
                  call.color) = pre

\* C16 as claimed: for every centre and every r >= 0 the pixels DrawCircleLine
\* sets are set by DrawCircle too, every outline offset having |dx| <= r,
\* |dy| <= r and dx^2 + dy^2 < r^2 + r; for r < 0 both set nothing.
C16_OutlineInDisk ==
    call.op = "DrawCircleLine" =>
        IF call.a[3] >= 0 THEN OutlineInDisk ELSE BothSetNothing

\* C16: for every centre and every r >= 1 the pixels DrawCircleLine sets are
\* set by DrawCircle too, every outline offset having |dx| <= r, |dy| <= r
\* and dx^2 + dy^2 < r^2 + r; for r = 0 DrawCircleLine sets the centre, if it
\* is on the canvas, and DrawCircle sets nothing; for r < 0 both set nothing.
C16_OutlineInDiskFromOne ==
    call.op = "DrawCircleLine" =>
        IF call.a[3] >= 1 THEN OutlineInDisk
        ELSE IF call.a[3] = 0
        THEN /\ SetsExactly({<<call.a[1], call.a[2]>>})
             /\ DrawCircle(pre, m_width, m_height, call.a[1], call.a[2], 0,
                           call.color) = pre
        ELSE BothSetNothing

\* an outline of radius 2 around a pixel of a painted canvas, cut by its
\* edges
C16_Witness ==
    /\ call.op = "DrawCircleLine"
    /\ call.a = <<1, 1, 2>>
    /\ m_width = 4 /\ m_height = 3
    /\ pre = Ramp(4, 3)
    /\ m_data # pre

\* pixel (x, y) holds the color pixel (W-1-x, H-1-y) held in before
HalfTurnOf(before) ==
    /\ DOMAIN m_data = DOMAIN before
    /\ \A p \in Pixels :
          At(m_data, p)
              = At(before, <<m_width - 1 - p[1], m_height - 1 - p[2]>>)

\* C12: for every buffer, of even or odd width and height, 0 and 1 among
\* them, FlipHorizontally followed by FlipVertically, and FlipVertically
\* followed by FlipHorizontally, leave the buffer Rotate180 leaves: pixel
\* (x, y) holds the color pixel (W-1-x, H-1-y) held before.
C12_Rotate180IsBothFlips ==
    /\ log = <<"Rotate180">> => HalfTurnOf(orig)
    /\ log \in {<<"FlipHorizontally", "FlipVertically">>,
                <<"FlipVertically", "FlipHorizontally">>} =>
          /\ HalfTurnOf(orig)
          /\ m_data = Rotate180(orig, m_width, m_height)

\* the two flips, made on a painted canvas of even width and odd height
C12_Witness ==
    /\ log = <<"FlipHorizontally", "FlipVertically">>
    /\ m_width = 4 /\ m_height = 3
    /\ orig = Ramp(4, 3)
    /\ m_data # orig
    /\ m_data # pre

\* C13: FlipHorizontally, FlipVertically, Rotate180 and Invert are
\* involutions: made twice in a row, each leaves every pixel of the buffer
\* with the color it had.
C13_Involutions ==
    \A T \in Transforms : log = <<T, T>> => m_data = orig

\* Invert made twice on a painted canvas
C13_Witness ==
    /\ log = <<"Invert", "Invert">>
    /\ m_width = 3 /\ m_height = 3
    /\ orig = Ramp(3, 3)
    /\ pre # orig

\* C14: after construction with (W, H) and whatever calls of Set on a pixel
\* of the canvas, SetSafe, Clear, the drawing operations, the transforms and
\* Save, Width() is W, Height() is H, and the buffer has exactly W*H pixels
\* whose channels are in 0..255; before the first call that writes a pixel
\* every pixel is (0, 0, 0).
C14_FixedShape ==
    /\ Width(m_width, m_height) = ctor[1]
    /\ Height(m_width, m_height) = ctor[2]
    /\ DOMAIN m_data = 0..(ctor[1] * ctor[2] - 1)
    /\ \A i \in DOMAIN m_data :
          m_data[i].r \in Channel /\ m_data[i].g \in Channel
              /\ m_data[i].b \in Channel
    /\ call.op = "Image" => \A i \in DOMAIN m_data : m_data[i] = BLACK

\* a flip and an inversion made on a painted canvas of 4 x 3
C14_Witness ==
    /\ log = <<"FlipVertically", "Invert">>
    /\ ctor = <<4, 3>>
    /\ orig = Ramp(4, 3)
    /\ Cardinality(DOMAIN m_data) = 12
    /\ m_data # pre

====
